---- MODULE Spec2Model ----
(***************************************************************************)
(* A model of MangaseeDL.py: the catalog fetch, the chapter selection, the *)
(* batched asyncio download of chapters, and the naming/URL helpers.       *)
(***************************************************************************)
EXTENDS Integers, Sequences, FiniteSets, TLC

\* ------------------------------------------------------------------ bounds
\* Largest chapter id the remote catalog may hold (ids are 0..MaxChapter).
MaxChapter == 2
\* Largest page count of a chapter.
MaxPages == 2
\* Largest value of the -l/--limit option.
MaxLimit == 2

ChapterIds == 0..MaxChapter
PageNums == 1..MaxPages
\* Values of the positional integer arguments: a negative one, every catalog id
\* and one beyond the catalog.
ArgInts == (-1)..(MaxChapter + 1)

\* ---------------------------------------------------------- python values
\* An optional argument of argparse: None, or the value given.
None == <<>>
Some(v) == <<v>>
Optional(S) == {None} \cup {Some(v) : v \in S}
\* Python truthiness of an optional integer: None and 0 are both false.
Truthy(x) == x # None /\ x[1] # 0

SetMin(S) == CHOOSE x \in S : \A y \in S : x <= y
SetMax(S) == CHOOSE x \in S : \A y \in S : x >= y
\* The elements of a set of integers in ascending order.
Ascending(S) ==
    CHOOSE s \in [1..Cardinality(S) -> S] :
        \A a, b \in 1..Cardinality(S) : a < b => s[a] < s[b]
\* list(range(a, b + 1))
RangeSeq(a, b) == [k \in 1..(IF b >= a THEN b - a + 1 ELSE 0) |-> a + k - 1]
SeqSet(s) == {s[k] : k \in DOMAIN s}

VARIABLES
    args,            \* the parsed command line: chapter_start, chapter_end, limit
    site,            \* the remote catalog: chapter id -> page count
    root,            \* what is at the path MANGA_NAME: "absent", "dir" or "file"
    dirs,            \* the chapter directories under MANGA_NAME
    files,           \* <<chapter, page>> -> "absent", "empty" or "full"
    pc,              \* position of the main program
    exit_kind,       \* how the process ended ("" while it runs)
    chapters_dict,   \* the dict get_manga_details returned
    selector,        \* the branch of the selection taken: "All", "Single", "Range"
    target_chapters, \* the resolved chapters, in order
    reported,        \* the chapter ids the selection printed as not available
    limit,           \* the batch size computed at line 299
    i,               \* the loop variable of line 301
    task,            \* chapter -> [st, page]: the chapter task's position
    snapshot,        \* the filesystem when this invocation started
    requests,        \* requests issued by this invocation: <<c, 0>> host, <<c, p>> image
    batches,         \* the slices handed to download_chapters by this invocation
    codec            \* the naming/URL helpers: the call made, its inputs, its result

runVars == <<args, site, root, dirs, files, pc, exit_kind, chapters_dict, selector,
             target_chapters, reported, limit, i, task, snapshot, requests,
             batches>>

vars == <<runVars, codec>>

NoTask == [st |-> "none", page |-> 0]
EmptyDict == [c \in {} |-> 0]

Waiting == {"host_wait", "img_wait", "body_wait"}
Ended == {"completed", "timedout", "sysexit", "cancelled"}
InFlight == {c \in ChapterIds : task[c].st \in Waiting}

\* The state of the program when an invocation starts.
Fresh ==
    /\ pc = "fetch"
    /\ exit_kind = ""
    /\ chapters_dict = EmptyDict
    /\ selector = ""
    /\ target_chapters = <<>>
    /\ reported = {}
    /\ limit = 0
    /\ i = 0
    /\ task = [c \in ChapterIds |-> NoTask]
    /\ requests = {}
    /\ batches = <<>>

\* The command lines argparse can produce: the positionals are filled in order, so
\* there is no chapter_end without a chapter_start.
CommandLines(Starts, Ends) ==
    {a \in [chapter_start : Optional(Starts), chapter_end : Optional(Ends),
            limit : Optional(1..MaxLimit)] :
        a.chapter_start = None => a.chapter_end = None}

\* The remote catalogs: any set of chapter ids, the chapters n pages long.
Catalogs == {[c \in S |-> n] : S \in SUBSET ChapterIds, n \in PageNums}

\* No helper call is being looked at.
CodecIdle == [op |-> "none"]

\* The first invocation, in a working directory that holds nothing, or a file, at
\* the path MANGA_NAME.
InitWith(lines) ==
    /\ args \in lines
    /\ site \in Catalogs
    /\ root \in {"absent", "file"}
    /\ dirs = {}
    /\ files = [f \in ChapterIds \X PageNums |-> "absent"]
    /\ snapshot = [root |-> root, dirs |-> dirs, files |-> files]
    /\ Fresh
    /\ codec = CodecIdle

\* Whole runs: every chapter_start, and a chapter_end that is absent or beyond the
\* catalog.
Init == InitWith(CommandLines(0..(MaxChapter + 1), {MaxChapter + 1}))

\* The selection alone: every chapter_start and every chapter_end.
InitSelect == InitWith(CommandLines(ArgInts, ArgInts))

unchangedFs == UNCHANGED <<root, dirs, files>>
unchangedInputs == UNCHANGED <<args, site, snapshot, codec>>

\* get_manga_details returns the catalog.
FetchCatalog ==
    /\ pc = "fetch"
    /\ chapters_dict' = site
    /\ pc' = "bounds"
    /\ unchangedFs /\ unchangedInputs
    /\ UNCHANGED <<exit_kind, selector, target_chapters, reported, limit, i, task,
                   requests, batches>>

\* get_manga_details fails: the site is unreachable (handled at line 260), or the
\* page holds no vm.CHAPTERS (SystemExit at line 106).
FetchCatalogFails ==
    /\ pc = "fetch"
    /\ \E kind \in {"ConnectionError", "CatalogNotFound"} : exit_kind' = kind
    /\ pc' = "ended"
    /\ unchangedFs /\ unchangedInputs
    /\ UNCHANGED <<chapters_dict, selector, target_chapters, reported, limit, i, task,
                   requests, batches>>

\* set(range(min_chapter, max_chapter + 1)) - set(chapters_dict.keys())
NonAvailable(d) == (SetMin(DOMAIN d)..SetMax(DOMAIN d)) \ DOMAIN d

\* min() and max() of the catalog's ids; min() of an empty dict raises ValueError,
\* which nothing catches.
ComputeBounds ==
    /\ pc = "bounds"
    /\ IF DOMAIN chapters_dict = {}
       THEN pc' = "ended" /\ exit_kind' = "EmptyCatalog"
       ELSE pc' = "select" /\ UNCHANGED exit_kind
    /\ unchangedFs /\ unchangedInputs
    /\ UNCHANGED <<chapters_dict, selector, target_chapters, reported, limit, i, task,
                   requests, batches>>

\* The branch of the if/elif/else at lines 271-276.
SelectorBranch(a) ==
    IF ~Truthy(a.chapter_start) THEN "All"
    ELSE IF ~Truthy(a.chapter_end) THEN "Single"
    ELSE "Range"

\* list(chapters_dict.values()): the catalog's records, in the catalog's order.
ResolveAll(d) == Ascending(DOMAIN d)

\* The loop over range(ch_start, ch_end): the end bound left out.
ResolveRange_exclusive(d, ch_start, ch_end) ==
    SelectSeq(RangeSeq(ch_start, ch_end - 1), LAMBDA ch : ch \in DOMAIN d)

\* The loop of lines 280-286: the ids of range(ch_start, ch_end + 1) the dict holds.
ResolveRange(d, ch_start, ch_end) ==
    SelectSeq(RangeSeq(ch_start, ch_end), LAMBDA ch : ch \in DOMAIN d)

\* The ids the loop prints as "not available, skipping".
SkippedInRange(d, ch_start, ch_end) ==
    {ch \in SeqSet(RangeSeq(ch_start, ch_end)) : ch \notin DOMAIN d}

\* The selection, lines 270-296.
SelectChapters ==
    /\ pc = "select"
    /\ selector' = SelectorBranch(args)
    /\ CASE selector' = "All" ->
              /\ target_chapters' = ResolveAll(chapters_dict)
              /\ reported' = {}
              /\ pc' = "limit"
              /\ UNCHANGED exit_kind
         [] selector' = "Single" ->
              IF args.chapter_start[1] \in DOMAIN chapters_dict
              THEN /\ target_chapters' = <<args.chapter_start[1]>>
                   /\ reported' = {}
                   /\ pc' = "limit"
                   /\ UNCHANGED exit_kind
              \* chapters_dict[ch] raises KeyError: the handler of line 292 prints the
              \* catalog's bounds and its gaps, and exits
              ELSE /\ target_chapters' = <<>>
                   /\ reported' = NonAvailable(chapters_dict)
                   /\ pc' = "ended"
                   /\ exit_kind' = "NoSuchChapter"
         [] selector' = "Range" ->
              /\ target_chapters' =
                     ResolveRange(chapters_dict, args.chapter_start[1], args.chapter_end[1])
              /\ reported' =
                     SkippedInRange(chapters_dict, args.chapter_start[1], args.chapter_end[1])
              /\ pc' = "limit"
              /\ UNCHANGED exit_kind
    /\ unchangedFs /\ unchangedInputs
    /\ UNCHANGED <<chapters_dict, limit, i, task, requests, batches>>

\* limit = args.limit or len(target_chapters)
LimitOf(a, tc) == IF Truthy(a.limit) THEN a.limit[1] ELSE Len(tc)

\* Line 299, and the construction of range(0, len(target_chapters), limit), which
\* raises ValueError for a step of 0.
ComputeLimit ==
    /\ pc = "limit"
    /\ limit' = LimitOf(args, target_chapters)
    /\ i' = 0
    /\ IF limit' = 0
       THEN pc' = "ended" /\ exit_kind' = "ZeroStep"
       ELSE pc' = "loop" /\ UNCHANGED exit_kind
    /\ unchangedFs /\ unchangedInputs
    /\ UNCHANGED <<chapters_dict, selector, target_chapters, reported, task, requests,
                   batches>>

\* A slice without its upper bound: target_chapters[i:]
BatchSlice_rest(tc, from, lim) == SubSeq(tc, from + 1, Len(tc))

\* target_chapters[i : i + limit]
BatchSlice(tc, from, lim) ==
    SubSeq(tc, from + 1, IF from + lim < Len(tc) THEN from + lim ELSE Len(tc))

\* A destination check that never fires.
DestinationIsFile_never(r) == FALSE

\* os.path.isfile(name)
DestinationIsFile(r) == r = "file"

\* A skip test that never skips.
IsFile_never(fl, c, p) == FALSE

\* os.path.isfile(save_path)
IsFile(fl, c, p) == fl[<<c, p>>] # "absent"

\* The "Download completed!" lines printed so far (line 209): one for each batch
\* whose gather has returned, which is when the loop of line 301 steps i by limit.
CompletionReports == IF limit = 0 THEN 0 ELSE i \div limit

\* A skip decision that skips nothing: the first page from p on, whatever exists.
NextPage_noSkip(fl, c, p, n) == IF p <= n THEN p ELSE 0

\* The for loop of download_and_save_chapter from page p on: the first page whose
\* file does not exist, or 0 when every remaining page is skipped.
NextPage(fl, c, p, n) ==
    LET todo == {q \in p..n : ~IsFile(fl, c, q)}
    IN  IF todo = {} THEN 0 ELSE SetMin(todo)

\* A task that issues the requests of all its remaining pages at once.
Continue_allPages(c, p, fl) ==
    LET todo == {q \in p..chapters_dict[c] : ~IsFile(fl, c, q)}
    IN  IF todo = {}
        THEN /\ task' = [task EXCEPT ![c] = [st |-> "completed", page |-> chapters_dict[c]]]
             /\ UNCHANGED requests
        ELSE /\ task' = [task EXCEPT ![c] = [st |-> "img_wait", page |-> SetMin(todo)]]
             /\ requests' = requests \cup {<<c, q>> : q \in todo}

\* The task of chapter c continues its loop at page p: it skips the pages that
\* exist and requests the first that does not, or finishes.
Continue(c, p, fl) ==
    LET q == NextPage(fl, c, p, chapters_dict[c])
    IN  IF q = 0
        THEN /\ task' = [task EXCEPT ![c] = [st |-> "completed", page |-> chapters_dict[c]]]
             /\ UNCHANGED requests
        ELSE /\ task' = [task EXCEPT ![c] = [st |-> "img_wait", page |-> q]]
             /\ requests' = requests \cup {<<c, q>>}

\* One iteration of the loop of line 301: asyncio.run(download_chapters(slice)) up
\* to the gather of line 208. Nothing awaits before the gather, and every task runs
\* to its first await (the host request of line 134) before any response is handled.
StartBatch ==
    /\ pc = "loop"
    /\ i < Len(target_chapters)
    /\ LET batch == BatchSlice(target_chapters, i, limit)
       IN  IF DestinationIsFile(root)
           THEN \* FileExistsError, caught at line 303
                /\ pc' = "ended"
                /\ exit_kind' = "DestinationIsFile"
                /\ UNCHANGED <<root, dirs, task, requests, batches>>
           ELSE /\ root' = IF root = "absent" THEN "dir" ELSE root
                /\ dirs' = dirs \cup SeqSet(batch)
                /\ task' = [c \in ChapterIds |->
                               IF c \in SeqSet(batch)
                               THEN [st |-> "host_wait", page |-> 0]
                               ELSE task[c]]
                /\ requests' = requests \cup {<<c, 0>> : c \in SeqSet(batch)}
                /\ batches' = Append(batches, batch)
                /\ pc' = "running"
                /\ UNCHANGED exit_kind
    /\ UNCHANGED files
    /\ unchangedInputs
    /\ UNCHANGED <<chapters_dict, selector, target_chapters, reported, limit, i>>

unchangedMain ==
    UNCHANGED <<chapters_dict, selector, target_chapters, reported, limit, i, batches>>

\* A task that requests its first image while its reader page is still awaited.
HostResponse_requestFirst(c) ==
    /\ pc = "running"
    /\ task[c].st = "host_wait"
    /\ requests' = requests \cup {<<c, 1>>}
    /\ UNCHANGED <<pc, exit_kind, task>>
    /\ unchangedFs /\ unchangedInputs /\ unchangedMain

\* The reader page of chapter c arrives and holds vm.CurPathName: the task builds
\* its page list and enters the loop of line 166.
HostResponse(c) ==
    /\ pc = "running"
    /\ task[c].st = "host_wait"
    /\ Continue(c, 1, files)
    /\ UNCHANGED <<pc, exit_kind>>
    /\ unchangedFs /\ unchangedInputs /\ unchangedMain

\* A missing token that fails its own chapter task only.
HostTokenMissing_chapterOnly(c) ==
    /\ pc = "running"
    /\ task[c].st = "host_wait"
    /\ task' = [task EXCEPT ![c].st = "sysexit"]
    /\ UNCHANGED <<pc, exit_kind, requests>>
    /\ unchangedFs /\ unchangedInputs /\ unchangedMain

\* The reader page of chapter c holds no vm.CurPathName: SystemExit (line 145).
\* asyncio re-raises SystemExit out of the event loop; asyncio.run cancels the
\* tasks still pending and the exception ends the process.
HostTokenMissing(c) ==
    /\ pc = "running"
    /\ task[c].st = "host_wait"
    /\ task' = [d \in ChapterIds |->
                   IF d = c THEN [task[d] EXCEPT !.st = "sysexit"]
                   ELSE IF task[d].st \in Waiting THEN [task[d] EXCEPT !.st = "cancelled"]
                   ELSE task[d]]
    /\ pc' = "ended"
    /\ exit_kind' = "HostTokenNotFound"
    /\ UNCHANGED requests
    /\ unchangedFs /\ unchangedInputs /\ unchangedMain

\* asyncio.TimeoutError at the await the task of chapter c is suspended in: the
\* host request, an image request, or the read of an image body (line 178).
Timeout(c) ==
    /\ pc = "running"
    /\ task[c].st \in Waiting
    /\ task' = [task EXCEPT ![c].st = "timedout"]
    /\ UNCHANGED <<pc, exit_kind, requests>>
    /\ unchangedFs /\ unchangedInputs /\ unchangedMain

\* The response of the image request arrives (line 173); aiofiles.open(save_path,
\* "wb") creates the file, empty, before the body is read (line 175).
ImageResponse(c) ==
    /\ pc = "running"
    /\ task[c].st = "img_wait"
    /\ files' = [files EXCEPT ![<<c, task[c].page>>] = "empty"]
    /\ task' = [task EXCEPT ![c].st = "body_wait"]
    /\ UNCHANGED <<pc, exit_kind, requests, root, dirs>>
    /\ unchangedInputs /\ unchangedMain

\* resp.read() returns the body and f.write stores it (line 176); the loop goes on.
BodyRead(c) ==
    /\ pc = "running"
    /\ task[c].st = "body_wait"
    /\ files' = [files EXCEPT ![<<c, task[c].page>>] = "full"]
    /\ Continue(c, task[c].page + 1, files')
    /\ UNCHANGED <<pc, exit_kind, root, dirs>>
    /\ unchangedInputs /\ unchangedMain

\* A loop that steps one chapter too far.
BatchDone_skip ==
    /\ pc = "running"
    /\ \A c \in SeqSet(batches[Len(batches)]) : task[c].st \in {"completed", "timedout"}
    /\ i' = i + limit + 1
    /\ pc' = "loop"
    /\ unchangedFs /\ unchangedInputs
    /\ UNCHANGED <<exit_kind, chapters_dict, selector, target_chapters, reported, limit,
                   task, requests, batches>>

\* asyncio.gather returns when every task of the batch has ended (line 208);
\* "Download completed!" is printed and the loop of line 301 steps.
BatchDone ==
    /\ pc = "running"
    /\ \A c \in SeqSet(batches[Len(batches)]) : task[c].st \in {"completed", "timedout"}
    /\ i' = i + limit
    /\ pc' = "loop"
    /\ unchangedFs /\ unchangedInputs
    /\ UNCHANGED <<exit_kind, chapters_dict, selector, target_chapters, reported, limit,
                   task, requests, batches>>

\* The loop of line 301 is exhausted: the script ends.
LoopEnd ==
    /\ pc = "loop"
    /\ i >= Len(target_chapters)
    /\ pc' = "ended"
    /\ exit_kind' = "ok"
    /\ unchangedFs /\ unchangedInputs
    /\ UNCHANGED <<chapters_dict, selector, target_chapters, reported, limit, i, task,
                   requests, batches>>

\* The script is invoked again, with the same command line, in the same working
\* directory: the filesystem is all that is kept.
Rerun ==
    /\ pc = "ended"
    /\ snapshot' = [root |-> root, dirs |-> dirs, files |-> files]
    /\ pc' = "fetch"
    /\ exit_kind' = ""
    /\ chapters_dict' = EmptyDict
    /\ selector' = ""
    /\ target_chapters' = <<>>
    /\ reported' = {}
    /\ limit' = 0
    /\ i' = 0
    /\ task' = [c \in ChapterIds |-> NoTask]
    /\ requests' = {}
    /\ batches' = <<>>
    /\ unchangedFs
    /\ UNCHANGED <<args, site, codec>>

Next ==
    \/ FetchCatalog
    \/ FetchCatalogFails
    \/ ComputeBounds
    \/ SelectChapters
    \/ ComputeLimit
    \/ StartBatch
    \/ \E c \in ChapterIds : HostResponse(c)
    \/ \E c \in ChapterIds : HostTokenMissing(c)
    \/ \E c \in ChapterIds : Timeout(c)
    \/ \E c \in ChapterIds : ImageResponse(c)
    \/ \E c \in ChapterIds : BodyRead(c)
    \/ BatchDone
    \/ LoopEnd
    \/ Rerun

\* Invocation after invocation in the same working directory.
Spec == Init /\ [][Next]_vars

\* One invocation, in a working directory no earlier invocation has written to.
NextOnce ==
    \/ FetchCatalog
    \/ FetchCatalogFails
    \/ ComputeBounds
    \/ SelectChapters
    \/ ComputeLimit
    \/ StartBatch
    \/ \E c \in ChapterIds : HostResponse(c)
    \/ \E c \in ChapterIds : HostTokenMissing(c)
    \/ \E c \in ChapterIds : Timeout(c)
    \/ \E c \in ChapterIds : ImageResponse(c)
    \/ \E c \in ChapterIds : BodyRead(c)
    \/ BatchDone
    \/ LoopEnd

SpecOnce == Init /\ [][NextOnce]_vars

\* One invocation in which the program keeps running while it can and every
\* request that is awaited is answered or times out.
Fairness ==
    /\ WF_vars(FetchCatalog \/ FetchCatalogFails)
    /\ WF_vars(ComputeBounds \/ SelectChapters \/ ComputeLimit)
    /\ WF_vars(StartBatch \/ BatchDone \/ LoopEnd)
    /\ \A c \in ChapterIds :
          WF_vars(HostResponse(c) \/ HostTokenMissing(c) \/ ImageResponse(c)
                    \/ BodyRead(c) \/ Timeout(c))

SpecLive == Init /\ [][NextOnce]_vars /\ Fairness

\* The program up to the loop of line 301, on every command line.
NextSelect ==
    \/ FetchCatalog
    \/ FetchCatalogFails
    \/ ComputeBounds
    \/ SelectChapters
    \/ ComputeLimit

SpecSelect == InitSelect /\ [][NextSelect]_vars

\* ------------------------------------------------------ naming/URL helpers
\* Strings are sequences of characters; the host and the series name are single
\* opaque tokens.
\* Largest number a chapter label is drawn for, and the most zeros it is led by.
MaxLabelNumber == 120
MaxLeadingZeros == 2
\* The chapter and page numbers an image url is built for lie around the powers
\* of ten up to 10^MaxDigits.
MaxDigits == 5

Digits == <<"0", "1", "2", "3", "4", "5", "6", "7", "8", "9">>
DigitChars == SeqSet(Digits)
DigitVal(ch) == (CHOOSE k \in DOMAIN Digits : Digits[k] = ch) - 1

RECURSIVE Pow10(_)
Pow10(k) == IF k = 0 THEN 1 ELSE 10 * Pow10(k - 1)

\* str(n) of a non-negative integer
RECURSIVE StrNat(_)
StrNat(n) == IF n < 10 THEN <<Digits[n + 1]>> ELSE Append(StrNat(n \div 10), Digits[(n % 10) + 1])

\* str(n)
Str(n) == IF n < 0 THEN <<"-">> \o StrNat(-n) ELSE StrNat(n)

RECURSIVE DigitsValue(_)
DigitsValue(s) ==
    IF s = <<>> THEN 0
    ELSE 10 * DigitsValue(SubSeq(s, 1, Len(s) - 1)) + DigitVal(s[Len(s)])

\* int(s, base=10) of a string of digits: Some(value), or None for the ValueError
\* an empty string or a character that is no digit raises.
IntParse(s) ==
    IF s # <<>> /\ \A k \in DOMAIN s : s[k] \in DigitChars
    THEN Some(DigitsValue(s))
    ELSE None

\* remove_leading_zeros: str(int(num, base=10)); None when int raises
remove_leading_zeros(num) ==
    LET inum == IntParse(num)
    IN  IF inum = None THEN None ELSE Some(Str(inum[1]))

\* label[1:]: the trailing character kept
StripDecoration_leadingOnly(lbl) == SubSeq(lbl, 2, Len(lbl))

\* label[1:-1]
StripDecoration(lbl) == SubSeq(lbl, 2, Len(lbl) - 1)

\* The key get_manga_details files a record under (lines 114-116):
\* int(remove_leading_zeros(chapter_detail["Chapter"][1:-1])); None when it raises
ChapterKey(lbl) ==
    LET stripped == remove_leading_zeros(StripDecoration(lbl))
    IN  IF stripped = None THEN None ELSE IntParse(stripped[1])

\* s.zfill(width): zeros are put after a leading sign
ZFill(s, width) ==
    LET pad == [k \in 1..(IF width > Len(s) THEN width - Len(s) ELSE 0) |-> "0"]
    IN  IF s # <<>> /\ s[1] \in {"+", "-"}
        THEN <<s[1]>> \o pad \o Tail(s)
        ELSE pad \o s

\* zfill to one character less
add_leading_zeros_short(num, total_len) == ZFill(Str(num), total_len - 1)

\* add_leading_zeros: str(num).zfill(total_len)
add_leading_zeros(num, total_len) == ZFill(Str(num), total_len)

\* get_page_image_url: f"https://{host}/manga/{name}/{ichapter}-{ipage}.png"
get_page_image_url(host, name, chapter, page) ==
    LET ichapter == add_leading_zeros(chapter, 4)
        ipage == add_leading_zeros(page, 3)
    IN  <<"https://", host, "/manga/", name, "/">> \o ichapter \o <<"-">> \o ipage
            \o <<".png">>

\* The labels a helper call is looked at for: a decoration character, the digits of
\* n led by z zeros and, in the form "c{n}d", a trailing decoration character.
LabelInputs ==
    {[op |-> "label", st |-> "input", n |-> n, form |-> form,
      label |-> <<"c">> \o [k \in 1..z |-> "0"] \o StrNat(n)
                    \o (IF form = "c{n}" THEN <<>> ELSE <<tail>>)] :
        n \in 0..MaxLabelNumber, z \in 0..MaxLeadingZeros, form \in {"c{n}", "c{n}d"},
        tail \in {"0", "5"}}

\* os.path.join(a, b) of two path strings: an absolute b replaces a.
PathJoin(a, b) ==
    IF b # <<>> /\ b[1] = "/" THEN b
    ELSE IF a = <<>> \/ a[Len(a)] = "/" THEN a \o b
    ELSE a \o <<"/">> \o b

\* A page path that leaves the chapter directory out.
save_path_flat(name, chapter, page) == PathJoin(<<name>>, Str(page) \o <<".png">>)

\* save_path of line 149: os.path.join(str(name), str(chapter), f"{page}.png");
\* chapter is the string download_chapters cut out of the label (line 197).
save_path(name, chapter, page) ==
    PathJoin(PathJoin(<<name>>, chapter), Str(page) \o <<".png">>)

\* The directory a chapter is saved in is label[1:-1] (line 197): the pairs
\* <<c, directory>> over every label that get_manga_details files under the
\* id c (lines 114-116).
ChapterDirs ==
    UNION {{<<c, StripDecoration(r.label)>> :
               r \in {x \in LabelInputs : ChapterKey(x.label) = Some(c)}} :
           c \in ChapterIds}

\* The triples <<c, p, path>>: a path page p of the chapter filed under id c may be
\* saved at.
PagePaths ==
    UNION {{<<d[1], p, save_path("Name", d[2], p)>> : p \in PageNums} : d \in ChapterDirs}

\* The numbers around each width: 10^k - 1 and 10^k, and 7 and 23.
WidthNumbers == {0, 7, 23} \cup UNION {{Pow10(k) - 1, Pow10(k)} : k \in 0..MaxDigits}

UrlInputs ==
    {[op |-> "url", st |-> "input", host |-> "host", name |-> "Name",
      chapter |-> c, page |-> p] : c \in WidthNumbers, p \in WidthNumbers}

\* The program is not running: only a helper is called.
RunIdle ==
    /\ args = [chapter_start |-> None, chapter_end |-> None, limit |-> None]
    /\ site = EmptyDict
    /\ root = "absent"
    /\ dirs = {}
    /\ files = [f \in ChapterIds \X PageNums |-> "absent"]
    /\ snapshot = [root |-> root, dirs |-> dirs, files |-> files]
    /\ pc = "idle"
    /\ exit_kind = ""
    /\ chapters_dict = EmptyDict
    /\ selector = ""
    /\ target_chapters = <<>>
    /\ reported = {}
    /\ limit = 0
    /\ i = 0
    /\ task = [c \in ChapterIds |-> NoTask]
    /\ requests = {}
    /\ batches = <<>>

InitCodec ==
    /\ RunIdle
    /\ codec \in LabelInputs \cup UrlInputs

\* get_manga_details files the record of one label (lines 113-116).
FileChapter ==
    /\ codec.op = "label"
    /\ codec.st = "input"
    /\ codec' = [codec EXCEPT !.st = "done"] @@ [key |-> ChapterKey(codec.label)]
    /\ UNCHANGED runVars

\* get_chapter_download_and_save_data builds the url of one page (line 148).
BuildImageUrl ==
    /\ codec.op = "url"
    /\ codec.st = "input"
    /\ codec' = [codec EXCEPT !.st = "done"]
                    @@ [url |-> get_page_image_url(codec.host, codec.name,
                                                   codec.chapter, codec.page)]
    /\ UNCHANGED runVars

NextCodec ==
    \/ FileChapter
    \/ BuildImageUrl

SpecCodec == InitCodec /\ [][NextCodec]_vars

\* ------------------------------------------------------------ properties
Started == {c \in ChapterIds : task[c].st # "none"}
CeilDiv(n, d) == (n + d - 1) \div d

\* C1: with a limit L given on the command line and N resolved chapters, the k-th
\* batch is the k-th run of L chapters of the resolved list (the last one holds the
\* rest), every task of a batch has ended before the next batch starts, at most L
\* tasks are in flight, and a run that reaches the end of the loop has run
\* ceil(N/L) batches.
C1_Batching ==
    args.limit # None =>
        LET L == args.limit[1]
            N == Len(target_chapters)
        IN  /\ Cardinality(InFlight) <= L
            /\ Len(batches) <= CeilDiv(N, L)
            /\ \A k \in DOMAIN batches :
                  /\ Len(batches[k]) = (IF k * L <= N THEN L ELSE N - (k - 1) * L)
                  /\ \A j \in DOMAIN batches[k] :
                        batches[k][j] = target_chapters[(k - 1) * L + j]
                  /\ k < Len(batches) =>
                        \A c \in SeqSet(batches[k]) : task[c].st \in Ended
            /\ batches # <<>> => InFlight \subseteq SeqSet(batches[Len(batches)])
            /\ (pc = "ended" /\ exit_kind = "ok") => Len(batches) = CeilDiv(N, L)

\* Three chapters under a limit of 2 ran as batches of 2 and 1.
C1_Witness ==
    /\ args.limit = Some(2)
    /\ Len(target_chapters) = 3
    /\ pc = "ended" /\ exit_kind = "ok"
    /\ Len(batches) = 2 /\ Len(batches[1]) = 2 /\ Len(batches[2]) = 1

\* C2: a page whose file an earlier invocation wrote in full is never requested by
\* a later invocation.
C2_IdempotentResume ==
    \A c \in ChapterIds, k \in PageNums :
        snapshot.files[<<c, k>>] = "full" => <<c, k>> \notin requests

\* A later invocation skipped page 1, written before, and requested page 2.
C2_Witness ==
    \E c \in ChapterIds :
        /\ snapshot.files[<<c, 1>>] = "full"
        /\ snapshot.files[<<c, 2>>] = "absent"
        /\ <<c, 0>> \in requests
        /\ <<c, 2>> \in requests
        /\ <<c, 1>> \notin requests

\* C3: when the task of an n-page chapter timed out at page k, the files of pages
\* 1..k-1 exist, the files of pages k..n that did not exist before the run do not
\* exist, and no other task was cancelled by it: the run goes on to its end, where
\* every other chapter that met no fault of its own is completed.
C3_TimeoutLeavesNoFile ==
    \A c \in ChapterIds :
        (task[c].st = "timedout" /\ task[c].page >= 1) =>
            /\ \A q \in 1..(task[c].page - 1) : files[<<c, q>>] # "absent"
            /\ \A q \in task[c].page..chapters_dict[c] :
                  snapshot.files[<<c, q>>] = "absent" => files[<<c, q>>] = "absent"
            /\ (pc = "ended" /\ exit_kind = "ok") =>
                  \A d \in SeqSet(target_chapters) : task[d].st \in {"completed", "timedout"}

C6_SingleMissing ==
    (/\ selector # ""
     /\ args.chapter_start # None /\ args.chapter_end = None
     /\ args.chapter_start[1] \notin DOMAIN chapters_dict) =>
        /\ target_chapters = <<>>
        /\ reported = {args.chapter_start[1]}
        /\ Started = {}

\* The selector the command line asks for: by which bounds are given.
AskedSelector(a) ==
    IF a.chapter_start = None THEN "All"
    ELSE IF a.chapter_end = None THEN "Single"
    ELSE "Range"

\* C7: the bounds given decide the selection, whatever their values: none selects
\* every chapter, chapter_start alone selects that chapter, both select the
\* chapters of the inclusive range.
C7_SelectorFromBounds ==
    selector # "" =>
        /\ selector = AskedSelector(args)
        /\ CASE AskedSelector(args) = "All" ->
                    SeqSet(target_chapters) = DOMAIN chapters_dict
             [] AskedSelector(args) = "Single" ->
                    SeqSet(target_chapters) = {args.chapter_start[1]} \cap DOMAIN chapters_dict
             [] AskedSelector(args) = "Range" ->
                    SeqSet(target_chapters) =
                        {c \in DOMAIN chapters_dict :
                            args.chapter_start[1] <= c /\ c <= args.chapter_end[1]}

\* C10: when a file is at the series path and at least one chapter was resolved,
\* the run ends on the destination error; no host or image request is issued, no
\* chapter task starts, and no directory or file is created.
C10_DestinationChecked ==
    snapshot.root = "file" =>
        /\ requests = {}
        /\ Started = {}
        /\ root = "file" /\ dirs = snapshot.dirs /\ files = snapshot.files
        /\ (pc = "ended" /\ target_chapters # <<>>) => exit_kind = "DestinationIsFile"
        /\ exit_kind = "DestinationIsFile" => batches = <<>>

\* Two chapters were resolved and the run ended on the destination error.
C10_Witness ==
    /\ snapshot.root = "file"
    /\ Len(target_chapters) >= 2
    /\ pc = "ended"
    /\ exit_kind = "DestinationIsFile"
    /\ requests = {} /\ dirs = {}

\* C11: a range that matches no chapter of a non-empty catalog ends the run with a
\* diagnostic (every id of the range printed as not available), with no chapter
\* task started and no request issued, and not on an unhandled error.
C11_NoMatchDiagnosed ==
    (/\ selector = "Range"
     /\ args.chapter_start[1] <= args.chapter_end[1]
     /\ DOMAIN chapters_dict # {}
     /\ target_chapters = <<>>
     /\ pc = "ended") =>
        /\ exit_kind = "ok"
        /\ reported = args.chapter_start[1]..args.chapter_end[1]
        /\ Started = {}
        /\ requests = {}

\* The chapters handed to download_chapters so far, batch after batch.
RECURSIVE Flatten(_)
Flatten(ss) == IF ss = <<>> THEN <<>> ELSE Head(ss) \o Flatten(Tail(ss))

\* The pairs of different pages, of one chapter or of two, that some labels of
\* their chapters give the same save path.
Colliding ==
    UNION {{<<<<x[1], x[2]>>, <<y[1], y[2]>>>> :
               y \in {z \in PagePaths : z[3] = x[3] /\ <<z[1], z[2]>> # <<x[1], x[2]>>}} :
           x \in PagePaths}

\* The pages that have a save path.
PathedPages == {<<x[1], x[2]>> : x \in PagePaths}

\* C12: no chapter is resolved twice or handed to two tasks, the save paths of all
\* pages of all resolved chapters are pairwise distinct whatever the labels the
\* chapters are filed under, and so no two tasks that have a file open for writing
\* at once have the same file open.
C12_DistinctSavePaths ==
    /\ \A a, b \in DOMAIN target_chapters :
          a # b => target_chapters[a] # target_chapters[b]
    /\ LET ran == Flatten(batches)
       IN  \A a, b \in DOMAIN ran : a # b => ran[a] # ran[b]
    /\ \A c, d \in SeqSet(target_chapters) :
          \A p \in 1..chapters_dict[c], q \in 1..chapters_dict[d] :
              /\ <<c, p>> \in PathedPages
              /\ <<c, p>> # <<d, q>> => <<<<c, p>>, <<d, q>>>> \notin Colliding
    /\ \A c, d \in ChapterIds :
          (c # d /\ task[c].st = "body_wait" /\ task[d].st = "body_wait") =>
              <<<<c, task[c].page>>, <<d, task[d].page>>>> \notin Colliding

\* Two chapter tasks have the file of their page 1 open for writing at once.
C12_Witness ==
    \E c, d \in ChapterIds :
        /\ c # d
        /\ task[c].st = "body_wait" /\ task[d].st = "body_wait"
        /\ task[c].page = 1 /\ task[d].page = 1
        /\ files[<<c, 1>>] = "empty" /\ files[<<d, 1>>] = "empty"

\* The image requests of chapter c issued so far.
ImageRequests(c) == {r \in requests : r[1] = c /\ r[2] >= 1}

\* C13: a chapter task issues an image request only after its host-token fetch has
\* been issued and has completed; the tasks of one batch are not ordered against
\* each other.
C13_HostBeforeImages ==
    \A c \in ChapterIds :
        ImageRequests(c) # {} =>
            /\ <<c, 0>> \in requests
            /\ task[c].st \notin {"none", "host_wait"}
            /\ task[c].page >= 1

\* The chapter listed second in a batch has issued an image request while the one
\* listed first still awaits its host token.
C13_Witness ==
    /\ batches # <<>>
    /\ LET batch == batches[Len(batches)]
       IN  /\ Len(batch) >= 2
           /\ task[batch[1]].st = "host_wait"
           /\ ImageRequests(batch[1]) = {}
           /\ <<batch[2], 1>> \in requests
           /\ task[batch[2]].st = "img_wait"

C15_CompletionAfterLastBatch ==
    CompletionReports > 0 =>
        /\ i >= Len(target_chapters)
        /\ pc \in {"loop", "ended"}
        /\ \A c \in SeqSet(target_chapters) : task[c].st \in Ended

\* C16: when a chapter task has ended as completed or timed out, every page file of
\* the chapter that exists holds a complete body.
C16_EndedTaskFilesComplete ==
    \A c \in ChapterIds :
        task[c].st \in {"completed", "timedout"} =>
            \A p \in PageNums : files[<<c, p>>] \in {"absent", "full"}

\* C17: whatever exists when an invocation starts is left as it is by the
\* invocation: a page file keeps its content, a chapter directory and the series
\* directory stay.
C17_ExistingFilesUntouched ==
    /\ \A f \in ChapterIds \X PageNums :
          snapshot.files[f] # "absent" => files[f] = snapshot.files[f]
    /\ snapshot.dirs \subseteq dirs
    /\ snapshot.root # "absent" => root = snapshot.root

\* An invocation that found page 1 of a chapter left empty by an earlier one has
\* completed the chapter: page 1 is as it was, page 2 was fetched and written.
C17_Witness ==
    \E c \in ChapterIds :
        /\ snapshot.files[<<c, 1>>] = "empty"
        /\ snapshot.files[<<c, 2>>] = "absent"
        /\ task[c].st = "completed"
        /\ files[<<c, 1>>] = "empty"
        /\ files[<<c, 2>>] = "full"

\* What a run that has ended left behind, when every resolved chapter was handed
\* to exactly one task, batch after batch in the resolved order, and each page of
\* a chapter whose task met no timeout exists.
AllChaptersRan ==
    /\ Flatten(batches) = target_chapters
    /\ Started = SeqSet(target_chapters)
    /\ \A c \in SeqSet(target_chapters) :
          /\ <<c, 0>> \in requests
          /\ task[c].st \in {"completed", "timedout"}
          /\ task[c].st = "completed" =>
                \A p \in 1..chapters_dict[c] : files[<<c, p>>] # "absent"

Filed == codec.op = "label" /\ codec.st = "done"
Built == codec.op = "url" /\ codec.st = "done"

\* C8 as claimed: a label "c{n}", a decoration character followed by the digits
\* of n, is filed under n.
C8_LabelGivesN ==
    (Filed /\ codec.form = "c{n}") => codec.key = Some(codec.n)

\* C8: a label "c{n}d", the digits of n (leading zeros allowed) between a leading
\* and a trailing decoration character, is filed under n.
C8_DecoratedLabelGivesN ==
    (Filed /\ codec.form = "c{n}d") => codec.key = Some(codec.n)

\* "c0070" was filed under 7.
C8_Witness ==
    /\ Filed
    /\ codec.label = <<"c", "0", "0", "7", "0">>
    /\ codec.key = Some(7)

\* The url's last path segment is "{chapter field}-{page field}.png"; the fields
\* of a url built for non-negative numbers are the characters around its dash.
DashAt(url) == SetMin({k \in 6..Len(url) : url[k] = "-"})
ChapterField(url) == SubSeq(url, 6, DashAt(url) - 1)
PageField(url) == SubSeq(url, DashAt(url) + 1, Len(url) - 1)
ZeroPadded(field, num, width) ==
    /\ Len(field) = width
    /\ IntParse(field) = Some(num)

\* C9 as claimed: the chapter field is the chapter number zero-padded to exactly 4
\* digits, the page field the page number zero-padded to exactly 3 digits, and no
\* other (chapter, page) pair has the same url.
C9_FieldsExactWidth ==
    Built =>
        /\ ZeroPadded(ChapterField(codec.url), codec.chapter, 4)
        /\ ZeroPadded(PageField(codec.url), codec.page, 3)
        /\ \A c \in WidthNumbers, p \in WidthNumbers :
              get_page_image_url(codec.host, codec.name, c, p) = codec.url
                  => c = codec.chapter /\ p = codec.page

\* C9: the url is "https://{host}/manga/{series}/{chapter field}-{page field}.png";
\* the chapter field is the chapter number in decimal, zero-padded to at least 4
\* digits (exactly 4 up to 9999, the number's own digits above), the page field
\* the page number zero-padded to at least 3 digits (exactly 3 up to 999), and no
\* other (chapter, page) pair has the same url.
C9_FieldsPadded ==
    Built =>
        LET cf == ChapterField(codec.url)
            pf == PageField(codec.url)
        IN  /\ SubSeq(codec.url, 1, 5) = <<"https://", codec.host, "/manga/", codec.name, "/">>
            /\ codec.url[Len(codec.url)] = ".png"
            /\ IntParse(cf) = Some(codec.chapter)
            /\ IntParse(pf) = Some(codec.page)
            /\ Len(cf) = (IF codec.chapter <= 9999 THEN 4 ELSE Len(StrNat(codec.chapter)))
            /\ Len(pf) = (IF codec.page <= 999 THEN 3 ELSE Len(StrNat(codec.page)))
            /\ \A c \in WidthNumbers, p \in WidthNumbers :
                  get_page_image_url(codec.host, codec.name, c, p) = codec.url
                      => c = codec.chapter /\ p = codec.page

\* Chapter 7, page 23: ".../0007-023.png".
C9_Witness ==
    /\ Built
    /\ codec.chapter = 7 /\ codec.page = 23
    /\ ChapterField(codec.url) = <<"0", "0", "0", "7">>
    /\ PageField(codec.url) = <<"0", "2", "3">>

====
